---- MODULE Spec2Model ----
(***************************************************************************)
(* Path build pipeline (AsyncPathKeyExchangeContext) and transit hop table *)
(* (PathContext) of llarp, from include/llarp/path.hpp.                    *)
(*                                                                         *)
(* Embedding API (lokinet_context) from llarp/lokinet_shared.cpp.          *)
(*                                                                         *)
(* Spec        : one path build on a worker pool and the logic thread.     *)
(* FairSpec    : Spec with weak fairness of both executors.                *)
(* TransitSpec : threads calling PathContext::PutTransitHop.               *)
(* RebuildSpec : builds of paths of 0..MAXHOPS hops, the build context     *)
(*               reused for a second build.                                *)
(* CompareSpec : TransitHopInfo::operator< and operator== on two triples.  *)
(* ApiSpec     : threads calling the lokinet_* functions on one context.   *)
(* FairApiSpec : ApiSpec with weak fairness of the threads' steps.         *)
(***************************************************************************)
EXTENDS Integers, Sequences, FiniteSets, Bags, TLC

VARIABLES
    hops,       \* Path::hops, a sequence of PathHopConfig
    status,     \* Path::status
    started,    \* ctx->path != nullptr: AsyncGenerateKeys has been called
    idx,        \* ctx->idx (0-based, as in the code)
    frames,     \* ctx->LRCM->frames (<<>> while LRCM == nullptr)
    rng,        \* position in the random stream (keygen / Randomize draws)
    workerQ,    \* jobs queued on the llarp_threadpool
    logicQ,     \* jobs queued on the llarp_logic thread
    wpc,        \* position of each worker thread inside GenerateNextKey
    whop,       \* the local reference `hop` of each worker (0-based index)
    lpc,        \* what the logic thread is running
    resultLog,  \* invocations of ctx->result, with the executor that made them
    errorLog,   \* the llarp::Error line written, if any
    aborted,    \* abort() was called: the process is gone
    transit,    \* m_TransitPaths.second, a bag of TransitHop
    mtx,        \* m_TransitPaths.first, the holder of the mutex or NoThread
    tpc,        \* position of each thread inside PutTransitHop
    targ,       \* the argument `hop` of each thread's PutTransitHop call
    puts,       \* number of PutTransitHop calls made so far
    oob,        \* GenerateNextKey indexed hops or frames out of range
    cmpA,       \* left operand of a TransitHopInfo comparison
    cmpB,       \* right operand of a TransitHopInfo comparison
    cmpRes,     \* results of the comparison, `done` once it was made
    amtx,       \* lokinet_context::m_access, its holder or NoThread
    implState,  \* llarp::Context: "down", "up", "stopping" or "stopped"
    runner,     \* lokinet_context::runner, a std::thread id or NoThread
    rRunning,   \* runner threads whose body has not returned
    rJoinable,  \* std::thread objects created and not yet joined
    terminated, \* std::terminate was called
    loopQ,      \* closures handed to CallSafe and not yet run
    lrun,       \* the closure the logic thread is running, and where
    apc,        \* position of each API thread inside its lokinet_* call
    promiseSet, \* per API thread: its call's std::promise has a value
    resErr,     \* per API thread: result->error of its lokinet_stream_result
    sid,        \* per API thread: the stream id of its call
    streams,    \* lokinet_context::streams, as a set of <<id, inbound>>
    nextStream, \* next stream id the QUIC tunnel hands out
    calls,      \* number of API calls made so far
    curCall     \* per API thread: the serial number of its latest call

buildVars == <<hops, status, started, idx, frames, rng, workerQ, logicQ, wpc,
               whop, lpc, resultLog, errorLog, aborted>>
transitVars == <<transit, mtx, tpc, targ, puts>>
cmpVars == <<cmpA, cmpB, cmpRes>>
apiVars == <<amtx, implState, runner, rRunning, rJoinable, terminated, loopQ,
             lrun, apc, promiseSet, resErr, sid, streams, nextStream, calls,
             curCall>>
lifeVars == <<implState, runner, rRunning, rJoinable, terminated>>
loopVars == <<loopQ, lrun>>
resultVars == <<promiseSet, resErr, sid>>
regVars == <<streams, nextStream>>
outsideApi == <<buildVars, oob, transitVars, cmpVars>>
outsideBuild == <<transitVars, cmpVars, apiVars>>
outsideTransit == <<buildVars, oob, cmpVars, apiVars>>
vars == <<hops, status, started, idx, frames, rng, workerQ, logicQ, wpc,
          whop, lpc, resultLog, errorLog, aborted,
          transit, mtx, tpc, targ, puts, oob, cmpA, cmpB, cmpRes,
          amtx, implState, runner, rRunning, rJoinable, terminated, loopQ,
          lrun, apc, promiseSet, resErr, sid, streams, nextStream, calls,
          curCall>>

----------------------------------------------------------------------------
(* Program constants *)

MAXHOPS == 8

DEFAULT_PATH_LIFETIME_MS == 600000

TransitHopDefaultLifetime == 360000

(* Bounds of the model *)

NumRouters == 2

NumWorkers == 2

NumThreads == 2

MaxBuilds == 2
NumCallers == 2

MaxCalls == 3

MaxPathID == 2

MaxPuts == 3

----------------------------------------------------------------------------
(* Values *)

Unset == 0

NoError == "none"

NoThread == 0

Routers == 1 .. NumRouters

Workers == 1 .. NumWorkers

\* The llarp_rc of router r: its identity key and its encryption key.
RouterContact(r) == [pubkey |-> r, enckey |-> 100 + r]

\* PathHopConfig as Path(llarp_path_hops*) leaves it: only `router` is set.
PathHopConfig(r) ==
    [pathID |-> Unset, router |-> RouterContact(r), commkey |-> Unset,
     shared |-> <<Unset, Unset, Unset>>, upstream |-> Unset, nonce |-> Unset]

\* Router lists up to renaming of routers: hop 1 is router 1 and every hop is
\* a router already used or the next unused one.
Canonical(rl) ==
    /\ rl[1] = 1
    /\ \A i \in 2 .. Len(rl) : \E j \in 1 .. (i - 1) : rl[i] <= rl[j] + 1

HopLists ==
    { rl \in UNION { [1 .. n -> Routers] : n \in 1 .. MAXHOPS } : Canonical(rl) }

\* crypto->dh_client: the shared secret is a function of its three inputs.
dh_client(enckey, commkey, nonce) == <<enckey, commkey, nonce>>

\* `LR_CommitRecord record;` -- default constructed, no field is assigned
\* before record.BEncode(buf).
LR_CommitRecord ==
    [commkey |-> Unset, nextHop |-> Unset, pathID |-> Unset, nonce |-> Unset]

NoRecord == [commkey |-> Unset, nextHop |-> Unset, pathID |-> Unset, nonce |-> Unset]

\* EncryptedFrame(256) after Randomize(): 256 bytes off the random stream.
RandomFrame(r) ==
    [kind |-> "random", bytes |-> r, commkey |-> Unset, enckey |-> Unset,
     record |-> NoRecord]

\* The frame after record.BEncode(buf), before EncryptInPlace.
EncodedFrame(rec) ==
    [kind |-> "plain", bytes |-> Unset, commkey |-> Unset, enckey |-> Unset,
     record |-> rec]

\* The frame after frame.EncryptInPlace(hop.commkey, hop.router.enckey, crypto).
EncryptInPlace(f, commkey, enckey) ==
    [f EXCEPT !.kind = "encrypted", !.commkey = commkey, !.enckey = enckey]

\* AsyncGenerateKeys' loop: MAXHOPS frames, each randomised.
NewFrames(r) == [j \in 1 .. MAXHOPS |-> RandomFrame(r + j - 1)]

\* Mutant of FrameSlot: the frame is bound after the increment.
FrameSlot_AfterIncrement(i) == i + 1

\* `auto& frame = ctx->LRCM->frames[ctx->idx]; ++ctx->idx;` -- the frame is
\* bound at the index before the increment.
FrameSlot(i) == i

\* Mutant of NextUpstream: the test reads the index as it was before ++idx,
\* so every hop names itself.
NextUpstream_NoIncrement(hs, h, nidx) == hs[h].router.pubkey

\* Mutant of NextUpstream: every hop names the first hop of the path.
NextUpstream_First(hs, h, nidx) == hs[1].router.pubkey

\* Lines 204-211: hop.upstream, with nidx the incremented ctx->idx (0-based)
\* and h the 1-based position of `hop` in hs.
NextUpstream(hs, h, nidx) ==
    IF nidx < Len(hs) THEN hs[nidx + 1].router.pubkey ELSE hs[h].router.pubkey

\* Mutant of QueueNext: the `else` is lost, HandleDone is queued after every hop.
QueueNext_NoElse(nidx, n, wq, lq) ==
    <<IF nidx < n THEN Append(wq, "GenerateNextKey") ELSE wq,
      Append(lq, "HandleDone")>>

\* Lines 232-241: where the continuation goes; <<worker queue, logic queue>>.
QueueNext(nidx, n, wq, lq) ==
    IF nidx < n
    THEN <<Append(wq, "GenerateNextKey"), lq>>
    ELSE <<wq, Append(lq, "HandleDone")>>

----------------------------------------------------------------------------
(* Path build *)

InitBuild ==
    /\ hops \in { [i \in 1 .. Len(rl) |-> PathHopConfig(rl[i])] : rl \in HopLists }
    /\ status = "Building"
    /\ started = FALSE
    /\ idx = 0
    /\ frames = <<>>
    /\ rng = 1
    /\ workerQ = <<>>
    /\ logicQ = <<>>
    /\ wpc = [w \in Workers |-> "idle"]
    /\ whop = [w \in Workers |-> 0]
    /\ lpc = "idle"
    /\ resultLog = <<>>
    /\ errorLog = NoError
    /\ aborted = FALSE

InitTransit ==
    /\ transit = EmptyBag
    /\ mtx = NoThread
    /\ tpc = [t \in 1 .. NumThreads |-> "idle"]
    /\ targ = [t \in 1 .. NumThreads |-> Unset]
    /\ puts = 0

\* No comparison has been made.
InitCompareIdle ==
    /\ cmpA = Unset
    /\ cmpB = Unset
    /\ cmpRes = [done |-> FALSE, lt |-> FALSE, gt |-> FALSE, eq |-> FALSE,
                 selfLt |-> FALSE]

\* The logic thread runs no closure.
NoClosure ==
    [kind |-> "idle", caller |-> NoThread, call |-> 0, step |-> "idle",
     err |-> "unset", id |-> 0]

\* lokinet_context after lokinet_context_new(): no runner, nothing running.
InitApi ==
    /\ amtx = NoThread
    /\ implState = "down"
    /\ runner = NoThread
    /\ rRunning = {}
    /\ rJoinable = {}
    /\ terminated = FALSE
    /\ loopQ = <<>>
    /\ lrun = NoClosure
    /\ apc = [t \in 1 .. NumCallers |-> "idle"]
    /\ promiseSet = [t \in 1 .. NumCallers |-> FALSE]
    /\ resErr = [t \in 1 .. NumCallers |-> "unset"]
    /\ sid = [t \in 1 .. NumCallers |-> 0]
    /\ streams = {}
    /\ nextStream = 1
    /\ calls = 0
    /\ curCall = [t \in 1 .. NumCallers |-> 0]

Init == InitBuild /\ InitTransit /\ oob = FALSE /\ InitCompareIdle /\ InitApi

AsyncGenerateKeys ==
    /\ ~aborted
    /\ ~started
    /\ started' = TRUE
    /\ frames' = NewFrames(rng)
    /\ rng' = rng + MAXHOPS
    /\ workerQ' = Append(workerQ, "GenerateNextKey")
    /\ UNCHANGED <<hops, status, idx, logicQ, wpc, whop, lpc, resultLog,
                   errorLog, aborted>>
    /\ UNCHANGED <<oob, outsideBuild>>

\* Lines 187-188: encryption_keygen(hop.commkey); hop.nonce.Randomize().
GenerateKeys(hop, r) == [hop EXCEPT !.commkey = r, !.nonce = r + 1]

\* A key exchange done on the nonce the hop held before it is randomised.
KeyExchange_NonceAfter(hop, r) ==
    [hop EXCEPT !.commkey = r,
                !.shared = dh_client(hop.router.enckey, r, hop.nonce),
                !.nonce = r + 1]

\* Lines 187-191: keygen, nonce, then dh_client into hop.shared.
KeyExchange(hop, r) ==
    LET keyed == GenerateKeys(hop, r)
    IN [keyed EXCEPT !.shared = dh_client(keyed.router.enckey, keyed.commkey,
                                          keyed.nonce)]

\* Lines 182-198: a worker takes the job, binds `hop`, generates the key and
\* the nonce, does the key exchange and randomises the path id.
GenerateNextKey_Keys(w) ==
    /\ ~aborted
    /\ wpc[w] = "idle"
    /\ workerQ # <<>>
    /\ idx < Len(hops)
    /\ workerQ' = Tail(workerQ)
    /\ whop' = [whop EXCEPT ![w] = idx]
    /\ \E ok \in BOOLEAN :
         LET h == idx + 1
             keyed == GenerateKeys(hops[h], rng)
         IN IF ok
            THEN /\ hops' = [hops EXCEPT ![h] =
                       [KeyExchange(hops[h], rng) EXCEPT !.pathID = rng + 2]]
                 /\ rng' = rng + 3
                 /\ wpc' = [wpc EXCEPT ![w] = "record"]
                 /\ UNCHANGED <<errorLog, aborted>>
            ELSE /\ hops' = [hops EXCEPT ![h] = keyed]
                 /\ rng' = rng + 2
                 /\ errorLog' = "Failed to generate shared key for path build"
                 /\ aborted' = TRUE
                 /\ wpc' = [wpc EXCEPT ![w] = "abort"]
    /\ UNCHANGED <<status, started, idx, frames, logicQ, lpc, resultLog>>
    /\ UNCHANGED <<oob, outsideBuild>>

\* Lines 200-230: bind the frame, ++idx, set hop.upstream, encode the record
\* into the frame and encrypt it.
GenerateNextKey_Record(w) ==
    /\ ~aborted
    /\ wpc[w] = "record"
    /\ LET h == whop[w] + 1
           f == FrameSlot(idx) + 1
           nidx == idx + 1
           hop == [hops[h] EXCEPT !.upstream = NextUpstream(hops, h, nidx)]
       IN /\ idx' = nidx
          /\ hops' = [hops EXCEPT ![h] = hop]
          /\ \E encoded \in BOOLEAN, encrypted \in BOOLEAN :
               IF ~encoded
               THEN /\ errorLog' = "Failed to generate Commit Record"
                    /\ aborted' = TRUE
                    /\ wpc' = [wpc EXCEPT ![w] = "abort"]
                    /\ UNCHANGED frames
               ELSE IF ~encrypted
               THEN /\ frames' = [frames EXCEPT ![f] = EncodedFrame(LR_CommitRecord)]
                    /\ errorLog' = "Failed to encrypt LRCR"
                    /\ aborted' = TRUE
                    /\ wpc' = [wpc EXCEPT ![w] = "abort"]
               ELSE /\ frames' = [frames EXCEPT ![f] =
                          EncryptInPlace(EncodedFrame(LR_CommitRecord),
                                         hop.commkey, hop.router.enckey)]
                    /\ wpc' = [wpc EXCEPT ![w] = "queue"]
                    /\ UNCHANGED <<errorLog, aborted>>
    /\ UNCHANGED <<status, started, rng, workerQ, logicQ, whop, lpc, resultLog>>
    /\ UNCHANGED <<oob, outsideBuild>>

\* Lines 232-241: queue the next hop on the worker pool, or HandleDone on the
\* logic thread after the farthest hop.
GenerateNextKey_Queue(w) ==
    /\ ~aborted
    /\ wpc[w] = "queue"
    /\ LET q == QueueNext(idx, Len(hops), workerQ, logicQ)
       IN /\ workerQ' = q[1]
          /\ logicQ' = q[2]
    /\ wpc' = [wpc EXCEPT ![w] = "idle"]
    /\ whop' = [whop EXCEPT ![w] = 0]
    /\ UNCHANGED <<hops, status, started, idx, frames, rng, lpc,
                   resultLog, errorLog, aborted>>
    /\ UNCHANGED <<oob, outsideBuild>>

\* The logic thread takes its next job.
LogicTake ==
    /\ ~aborted
    /\ lpc = "idle"
    /\ logicQ # <<>>
    /\ lpc' = Head(logicQ)
    /\ logicQ' = Tail(logicQ)
    /\ UNCHANGED <<hops, status, started, idx, frames, rng, workerQ, wpc, whop,
                   resultLog, errorLog, aborted>>
    /\ UNCHANGED <<oob, outsideBuild>>

\* Lines 171-177: ctx->result(ctx), on the thread that runs the job.
HandleDone ==
    /\ ~aborted
    /\ lpc = "HandleDone"
    /\ resultLog' = Append(resultLog, [thread |-> "logic", idx |-> idx])
    /\ lpc' = "idle"
    /\ UNCHANGED <<hops, status, started, idx, frames, rng, workerQ, logicQ,
                   wpc, whop, errorLog, aborted>>
    /\ UNCHANGED <<oob, outsideBuild>>

\* The build deadline passes before the path is established (logic thread).
PathTimeout ==
    /\ ~aborted
    /\ lpc = "idle"
    /\ status = "Building"
    /\ status' = "Timeout"
    /\ UNCHANGED <<hops, started, idx, frames, rng, workerQ, logicQ, wpc, whop,
                   lpc, resultLog, errorLog, aborted>>
    /\ UNCHANGED <<oob, outsideBuild>>

\* An ack handler that marks the path established whatever its status.
OnAck_Always(s) == "Established"

\* Status after an ack from the farthest hop: Building becomes Established.
OnAck(s) == IF s = "Building" THEN "Established" ELSE s

\* Status after an expiry sweep past the path lifetime.
OnExpire(s) == IF s = "Established" THEN "Expired" ELSE s

\* handleRelayAck: the ack of the farthest hop arrives once the frames of a
\* completed build were sent (logic thread).
PathAck ==
    /\ ~aborted
    /\ lpc = "idle"
    /\ resultLog # <<>>
    /\ status' = OnAck(status)
    /\ UNCHANGED <<hops, started, idx, frames, rng, workerQ, logicQ, wpc, whop,
                   lpc, resultLog, errorLog, aborted>>
    /\ UNCHANGED <<oob, outsideBuild>>

\* expirePaths: the path lifetime has passed (logic thread).
PathExpire ==
    /\ ~aborted
    /\ lpc = "idle"
    /\ status \in {"Established", "Expired"}
    /\ status' = OnExpire(status)
    /\ UNCHANGED <<hops, started, idx, frames, rng, workerQ, logicQ, wpc, whop,
                   lpc, resultLog, errorLog, aborted>>
    /\ UNCHANGED <<oob, outsideBuild>>

WorkerStep ==
    \E w \in Workers :
        \/ GenerateNextKey_Keys(w)
        \/ GenerateNextKey_Record(w)
        \/ GenerateNextKey_Queue(w)

LogicStep == LogicTake \/ HandleDone

Next ==
    \/ AsyncGenerateKeys
    \/ \E w \in Workers : GenerateNextKey_Keys(w)
    \/ \E w \in Workers : GenerateNextKey_Record(w)
    \/ \E w \in Workers : GenerateNextKey_Queue(w)
    \/ LogicTake
    \/ HandleDone
    \/ PathTimeout
    \/ PathAck
    \/ PathExpire

Spec == Init /\ [][Next]_vars

FairSpec ==
    /\ Init
    /\ [][Next]_vars
    /\ WF_vars(AsyncGenerateKeys)
    /\ WF_vars(WorkerStep)
    /\ WF_vars(LogicStep)

----------------------------------------------------------------------------
(* Transit hop table *)

Threads == 1 .. NumThreads

PathIDs == 1 .. MaxPathID

\* TransitHopInfo: the triple (pathID, upstream, downstream).
TransitHopInfo == [pathID : PathIDs, upstream : Routers, downstream : Routers]

\* Mutant of InfoEq: only the map's key, the pathID, is compared.
InfoEq_PathIDOnly(a, b) == a.pathID = b.pathID

\* TransitHopInfo::operator==
InfoEq(a, b) ==
    a.pathID = b.pathID /\ a.upstream = b.upstream /\ a.downstream = b.downstream

\* TransitHop() = default, then `info` filled in: lifetime keeps its
\* default member initialiser.
TransitHop(info) == [info |-> info, lifetime |-> TransitHopDefaultLifetime]

\* HasTransitHop: some stored entry has an equal TransitHopInfo.
HasTransitHop(table, info) ==
    \E e \in BagToSet(table) : InfoEq(e.info, info)

\* put(TransitHop): insert, idempotent on identical TransitHopInfo.
Put(table, hop) ==
    IF HasTransitHop(table, hop.info) THEN table ELSE table (+) SetToBag({hop})

\* PutTransitHop, entry: the caller takes the table's mutex.
PutTransitHop_Lock(t) ==
    /\ tpc[t] = "idle"
    /\ mtx = NoThread
    /\ puts < MaxPuts
    /\ \E info \in TransitHopInfo : targ' = [targ EXCEPT ![t] = TransitHop(info)]
    /\ mtx' = t
    /\ tpc' = [tpc EXCEPT ![t] = "locked"]
    /\ puts' = puts + 1
    /\ UNCHANGED transit
    /\ UNCHANGED outsideTransit

\* PutTransitHop, body: insert under the mutex and release it on return.
PutTransitHop_Insert(t) ==
    /\ tpc[t] = "locked"
    /\ mtx = t
    /\ transit' = Put(transit, targ[t])
    /\ mtx' = NoThread
    /\ tpc' = [tpc EXCEPT ![t] = "idle"]
    /\ targ' = [targ EXCEPT ![t] = Unset]
    /\ UNCHANGED puts
    /\ UNCHANGED outsideTransit

NextTransit ==
    \/ \E t \in Threads : PutTransitHop_Lock(t)
    \/ \E t \in Threads : PutTransitHop_Insert(t)

\* The relay has no path build of its own in progress.
InitRelay ==
    /\ hops = <<>>
    /\ status = "Building"
    /\ started = FALSE
    /\ idx = 0
    /\ frames = <<>>
    /\ rng = 1
    /\ workerQ = <<>>
    /\ logicQ = <<>>
    /\ wpc = [w \in Workers |-> "idle"]
    /\ whop = [w \in Workers |-> 0]
    /\ lpc = "idle"
    /\ resultLog = <<>>
    /\ errorLog = NoError
    /\ aborted = FALSE
    /\ InitTransit
    /\ oob = FALSE
    /\ InitCompareIdle
    /\ InitApi

TransitSpec == InitRelay /\ [][NextTransit]_vars

----------------------------------------------------------------------------
(* A build context that is used again, and paths without hops *)

\* The user callback has run for every build started so far.
BuildsDone == Len(resultLog)

\* A path of 0 .. MAXHOPS hops whose build has not started.
InitRebuild ==
    /\ hops \in { [i \in 1 .. Len(rl) |-> PathHopConfig(rl[i])] :
                    rl \in HopLists \cup {<<>>} }
    /\ status = "Building"
    /\ started = FALSE
    /\ idx = 0
    /\ frames = <<>>
    /\ rng = 1
    /\ workerQ = <<>>
    /\ logicQ = <<>>
    /\ wpc = [w \in Workers |-> "idle"]
    /\ whop = [w \in Workers |-> 0]
    /\ lpc = "idle"
    /\ resultLog = <<>>
    /\ errorLog = NoError
    /\ aborted = FALSE
    /\ InitTransit
    /\ oob = FALSE
    /\ InitCompareIdle
    /\ InitApi

\* AsyncGenerateKeys called once more on a context whose build has completed,
\* with the same path: a new LR_CommitMessage with MAXHOPS random frames and
\* one queued job; ctx->idx keeps the value the last build left.
AsyncGenerateKeys_Again ==
    /\ ~aborted
    /\ started
    /\ BuildsDone >= 1
    /\ BuildsDone < MaxBuilds
    /\ workerQ = <<>> /\ logicQ = <<>> /\ lpc = "idle"
    /\ \A w \in Workers : wpc[w] = "idle"
    /\ frames' = NewFrames(rng)
    /\ rng' = rng + MAXHOPS
    /\ workerQ' = Append(workerQ, "GenerateNextKey")
    /\ UNCHANGED <<hops, status, started, idx, logicQ, wpc, whop, lpc,
                   resultLog, errorLog, aborted>>
    /\ UNCHANGED <<oob, outsideBuild>>

\* GenerateNextKey run with ctx->idx >= hops.size(): `hops[ctx->idx]` is an
\* unchecked access past the end of the vector.  The process either dies, or
\* works on whatever memory is there: no hop of the path is written, the
\* frame at idx (if there is one) is encrypted with what was found, idx is
\* incremented and, idx being past the end, HandleDone is queued.
GenerateNextKey_OutOfRange(w) ==
    /\ ~aborted
    /\ wpc[w] = "idle"
    /\ workerQ # <<>>
    /\ idx >= Len(hops)
    /\ workerQ' = Tail(workerQ)
    /\ oob' = TRUE
    /\ \E crash \in BOOLEAN :
         IF crash
         THEN /\ aborted' = TRUE
              /\ wpc' = [wpc EXCEPT ![w] = "abort"]
              /\ UNCHANGED <<idx, frames, rng, logicQ>>
         ELSE /\ idx' = idx + 1
              /\ frames' = IF FrameSlot(idx) + 1 <= Len(frames)
                           THEN [frames EXCEPT ![FrameSlot(idx) + 1] =
                                   EncryptInPlace(EncodedFrame(LR_CommitRecord),
                                                  rng, rng + 1)]
                           ELSE frames
              /\ rng' = rng + 3
              /\ logicQ' = QueueNext(idx + 1, Len(hops), Tail(workerQ), logicQ)[2]
              /\ UNCHANGED <<wpc, aborted>>
    /\ UNCHANGED <<hops, status, started, whop, lpc, resultLog, errorLog>>
    /\ UNCHANGED outsideBuild

NextRebuild ==
    \/ AsyncGenerateKeys
    \/ AsyncGenerateKeys_Again
    \/ \E w \in Workers : GenerateNextKey_Keys(w)
    \/ \E w \in Workers : GenerateNextKey_Record(w)
    \/ \E w \in Workers : GenerateNextKey_Queue(w)
    \/ \E w \in Workers : GenerateNextKey_OutOfRange(w)
    \/ LogicTake
    \/ HandleDone

RebuildSpec == InitRebuild /\ [][NextRebuild]_vars

\* C14: GenerateNextKey never indexes hops or frames out of range, and every
\* call of AsyncGenerateKeys starts its build at hop index 0, also for a path
\* without hops and for a context that has already completed a build.
C14_IndexInRange ==
    /\ [](~oob)
    /\ [][(AsyncGenerateKeys \/ AsyncGenerateKeys_Again) => idx = 0]_vars

----------------------------------------------------------------------------
(* Comparison of TransitHopInfo *)

\* TransitHopInfo::operator<
InfoLt(a, b) ==
    a.pathID < b.pathID \/ a.upstream < b.upstream \/ a.downstream < b.downstream

\* Two triples to compare; nothing else is going on.
InitCompare ==
    /\ hops = <<>>
    /\ status = "Building"
    /\ started = FALSE
    /\ idx = 0
    /\ frames = <<>>
    /\ rng = 1
    /\ workerQ = <<>>
    /\ logicQ = <<>>
    /\ wpc = [w \in Workers |-> "idle"]
    /\ whop = [w \in Workers |-> 0]
    /\ lpc = "idle"
    /\ resultLog = <<>>
    /\ errorLog = NoError
    /\ aborted = FALSE
    /\ InitTransit
    /\ oob = FALSE
    /\ InitApi
    /\ cmpA \in TransitHopInfo
    /\ cmpB \in TransitHopInfo
    /\ cmpRes = [done |-> FALSE, lt |-> FALSE, gt |-> FALSE, eq |-> FALSE,
                 selfLt |-> FALSE]

\* a < b, b < a, a == b and a < a are evaluated.
Compare ==
    /\ ~cmpRes.done
    /\ cmpRes' = [done |-> TRUE,
                  lt |-> InfoLt(cmpA, cmpB),
                  gt |-> InfoLt(cmpB, cmpA),
                  eq |-> InfoEq(cmpA, cmpB),
                  selfLt |-> InfoLt(cmpA, cmpA)]
    /\ UNCHANGED <<cmpA, cmpB>>
    /\ UNCHANGED <<buildVars, oob, transitVars, apiVars>>

NextCompare == Compare

CompareSpec == InitCompare /\ [][NextCompare]_vars

\* C19: operator< is a strict ordering consistent with operator==: a < a is
\* false, a < b and b < a never both hold, and a == b excludes a < b and b < a.
C19_StrictOrder ==
    cmpRes.done =>
        /\ ~cmpRes.selfLt
        /\ ~(cmpRes.lt /\ cmpRes.gt)
        /\ cmpRes.eq => (~cmpRes.lt /\ ~cmpRes.gt)

----------------------------------------------------------------------------
(* Embedding API: lokinet_context_start and lokinet_context_stop *)

Callers == 1 .. NumCallers

\* impl->IsUp() and impl->IsStopping()
IsUp == implState = "up"
IsStopping == implState \in {"stopping", "stopped"}

\* A thread enters a lokinet_* function: the call gets the next serial number.
BeginCall(t, pc) ==
    /\ ~terminated
    /\ apc[t] = "idle"
    /\ calls < MaxCalls
    /\ calls' = calls + 1
    /\ curCall' = [curCall EXCEPT ![t] = calls + 1]
    /\ apc' = [apc EXCEPT ![t] = pc]

\* A step of thread t inside a call, from position `from` to position `to`.
Step(t, from, to) ==
    /\ ~terminated
    /\ apc[t] = from
    /\ apc' = [apc EXCEPT ![t] = to]
    /\ UNCHANGED <<calls, curCall>>

\* lokinet_context_start, line 147: auto lock = ctx->acquire().
lokinet_context_start_Acquire(t) ==
    /\ BeginCall(t, "start_spawn")
    /\ amtx = NoThread
    /\ amtx' = t
    /\ UNCHANGED <<lifeVars, loopVars, resultVars, regVars>>
    /\ UNCHANGED outsideApi

\* Lines 148-162: a new std::thread is created and move-assigned to
\* ctx->runner.  A std::thread the pointer still held is destroyed unjoined,
\* and its destructor calls std::terminate.
lokinet_context_start_Spawn(t) ==
    /\ Step(t, "start_spawn", "start_wait")
    /\ rJoinable' = rJoinable \cup {curCall[t]}
    /\ rRunning' = rRunning \cup {curCall[t]}
    /\ runner' = curCall[t]
    /\ terminated' = (runner # NoThread)
    /\ UNCHANGED <<amtx, implState, loopVars, resultVars, regVars>>
    /\ UNCHANGED outsideApi

\* Lines 163-168: the loop ends when IsUp(), or returns when IsStopping().
lokinet_context_start_Wait(t) ==
    /\ Step(t, "start_wait", "idle")
    /\ IsUp \/ IsStopping
    /\ amtx' = NoThread
    /\ UNCHANGED <<lifeVars, loopVars, resultVars, regVars>>
    /\ UNCHANGED outsideApi

\* lokinet_context_stop, line 176, on a context that was started.
lokinet_context_stop_Acquire(t) ==
    /\ BeginCall(t, "stop_close")
    /\ implState # "down"
    /\ amtx = NoThread
    /\ amtx' = t
    /\ UNCHANGED <<lifeVars, loopVars, resultVars, regVars>>
    /\ UNCHANGED outsideApi

\* Lines 178-182: CloseAsync() unless already stopping; then Wait().
lokinet_context_stop_Close(t) ==
    /\ IF IsStopping
       THEN /\ Step(t, "stop_close", "stop_join")
            /\ UNCHANGED implState
       ELSE /\ Step(t, "stop_close", "stop_wait")
            /\ implState' = "stopping"
    /\ UNCHANGED <<amtx, runner, rRunning, rJoinable, terminated, loopVars,
                   resultVars, regVars>>
    /\ UNCHANGED outsideApi

\* Line 181: Wait() returns once the context has closed.
lokinet_context_stop_Waited(t) ==
    /\ Step(t, "stop_wait", "stop_join")
    /\ implState = "stopped"
    /\ UNCHANGED <<amtx, lifeVars, loopVars, resultVars, regVars>>
    /\ UNCHANGED outsideApi

\* Lines 184-188: join the runner if there is one, reset the pointer, return.
lokinet_context_stop_Join(t) ==
    /\ Step(t, "stop_join", "idle")
    /\ runner \notin rRunning
    /\ rJoinable' = rJoinable \ {runner}
    /\ runner' = NoThread
    /\ amtx' = NoThread
    /\ UNCHANGED <<implState, rRunning, terminated, loopVars, resultVars, regVars>>
    /\ UNCHANGED outsideApi

\* The runner thread, lines 149-161: Configure, Setup and Run bring the
\* context up; an exception closes it and the thread's body returns.  On a
\* context that is already closing, Run returns at once (Runner_Exit).
Runner_Setup(r) ==
    /\ ~terminated
    /\ r \in rRunning
    /\ implState = "down"
    /\ \E ok \in BOOLEAN :
         IF ok
         THEN implState' = "up" /\ UNCHANGED rRunning
         ELSE implState' = "stopped" /\ rRunning' = rRunning \ {r}
    /\ UNCHANGED <<amtx, runner, rJoinable, terminated, loopVars, apc,
                   resultVars, regVars, calls, curCall>>
    /\ UNCHANGED outsideApi

\* Run returns: the event loop has stopped and runs no more closures.
Runner_Exit(r) ==
    /\ ~terminated
    /\ r \in rRunning
    /\ IsStopping
    /\ lrun.kind = "idle"
    /\ implState' = "stopped"
    /\ rRunning' = rRunning \ {r}
    /\ UNCHANGED <<amtx, runner, rJoinable, terminated, loopVars, apc,
                   resultVars, regVars, calls, curCall>>
    /\ UNCHANGED outsideApi

\* The main loop closes itself (a signal, a fatal error in the router).
Loop_Close ==
    /\ ~terminated
    /\ IsUp
    /\ implState' = "stopping"
    /\ UNCHANGED <<amtx, runner, rRunning, rJoinable, terminated, loopVars,
                   apc, resultVars, regVars, calls, curCall>>
    /\ UNCHANGED outsideApi

----------------------------------------------------------------------------
(* Embedding API: streams *)

\* streams[id] = inbound
PutStream(m, id, inbound) == { e \in m : e[1] # id } \cup { <<id, inbound>> }

StreamIds == { e[1] : e \in streams }

\* A closure handed to impl->CallSafe by the current call of thread t.
Closure(kind, t, id) == [kind |-> kind, caller |-> t, call |-> curCall[t], id |-> id]

\* lokinet_outbound_stream, lines 202-204: the promise, then the lock.
lokinet_outbound_stream_Acquire(t) ==
    /\ BeginCall(t, "out_check")
    /\ amtx = NoThread
    /\ amtx' = t
    /\ promiseSet' = [promiseSet EXCEPT ![t] = FALSE]
    /\ resErr' = [resErr EXCEPT ![t] = "unset"]
    /\ sid' = [sid EXCEPT ![t] = 0]
    /\ UNCHANGED <<lifeVars, loopVars, regVars>>
    /\ UNCHANGED outsideApi

\* Lines 207-292: EHOSTDOWN unless IsUp(), an error for an address that does
\* not parse, else the closure `call` is handed to CallSafe; the lock is
\* released at the end of the block.
lokinet_outbound_stream_CallSafe(t) ==
    /\ amtx' = NoThread
    /\ \/ /\ ~IsUp
          /\ Step(t, "out_check", "idle")
          /\ resErr' = [resErr EXCEPT ![t] = "EHOSTDOWN"]
          /\ UNCHANGED loopQ
       \/ /\ IsUp
          /\ Step(t, "out_check", "idle")
          /\ resErr' = [resErr EXCEPT ![t] = "EINVAL"]
          /\ UNCHANGED loopQ
       \/ /\ IsUp
          /\ Step(t, "out_check", "out_wait")
          /\ loopQ' = Append(loopQ, Closure("outbound", t, 0))
          /\ UNCHANGED resErr
    /\ UNCHANGED <<lifeVars, lrun, promiseSet, sid, regVars>>
    /\ UNCHANGED outsideApi

\* Lines 297-300: wait_for returns ready; future.get().
lokinet_outbound_stream_Ready(t) ==
    /\ Step(t, "out_wait", "idle")
    /\ promiseSet[t]
    /\ UNCHANGED <<amtx, lifeVars, loopVars, resultVars, regVars>>
    /\ UNCHANGED outsideApi

\* Line 297: ten seconds pass and the promise has no value.
lokinet_outbound_stream_Elapsed(t) ==
    /\ Step(t, "out_wait", "out_timeout")
    /\ ~promiseSet[t]
    /\ UNCHANGED <<amtx, lifeVars, loopVars, resultVars, regVars>>
    /\ UNCHANGED outsideApi

\* Line 304: stream_error(result, ETIMEDOUT).
lokinet_outbound_stream_Timeout(t) ==
    /\ Step(t, "out_timeout", "out_return")
    /\ resErr' = [resErr EXCEPT ![t] = "ETIMEDOUT"]
    /\ UNCHANGED <<amtx, lifeVars, loopVars, promiseSet, sid, regVars>>
    /\ UNCHANGED outsideApi

\* Line 311: the function returns; `promise` goes out of scope.
lokinet_outbound_stream_Return(t) ==
    /\ Step(t, "out_return", "idle")
    /\ UNCHANGED <<amtx, lifeVars, loopVars, resultVars, regVars>>
    /\ UNCHANGED outsideApi

\* lokinet_inbound_stream_filter, lines 330-332.
lokinet_inbound_stream_filter_Acquire(t) ==
    /\ BeginCall(t, "in_check")
    /\ amtx = NoThread
    /\ amtx' = t
    /\ promiseSet' = [promiseSet EXCEPT ![t] = FALSE]
    /\ sid' = [sid EXCEPT ![t] = 0]
    /\ UNCHANGED <<lifeVars, loopVars, resErr, regVars>>
    /\ UNCHANGED outsideApi

\* Lines 333-357: return -1 unless IsUp(), else CallSafe; the lock is released.
lokinet_inbound_stream_filter_CallSafe(t) ==
    /\ amtx' = NoThread
    /\ IF IsUp
       THEN /\ Step(t, "in_check", "in_wait")
            /\ loopQ' = Append(loopQ, Closure("inbound", t, 0))
       ELSE /\ Step(t, "in_check", "idle")
            /\ UNCHANGED loopQ
    /\ UNCHANGED <<lifeVars, lrun, resultVars, regVars>>
    /\ UNCHANGED outsideApi

\* Lines 358-359: ftr.get() returns once the promise has a value.
lokinet_inbound_stream_filter_Get(t) ==
    /\ Step(t, "in_wait", "in_lock")
    /\ promiseSet[t]
    /\ UNCHANGED <<amtx, lifeVars, loopVars, resultVars, regVars>>
    /\ UNCHANGED outsideApi

\* Line 361: auto lock = ctx->acquire().
lokinet_inbound_stream_filter_Reacquire(t) ==
    /\ Step(t, "in_lock", "in_register")
    /\ amtx = NoThread
    /\ amtx' = t
    /\ UNCHANGED <<lifeVars, loopVars, resultVars, regVars>>
    /\ UNCHANGED outsideApi

\* Lines 362-364: ctx->inbound_stream(id); return id.
lokinet_inbound_stream_filter_Register(t) ==
    /\ Step(t, "in_register", "idle")
    /\ streams' = PutStream(streams, sid[t], TRUE)
    /\ amtx' = NoThread
    /\ UNCHANGED <<lifeVars, loopVars, resultVars, nextStream>>
    /\ UNCHANGED outsideApi

\* lokinet_close_stream, line 372; the promise is made at line 378.
lokinet_close_stream_Acquire(t) ==
    /\ BeginCall(t, "close_check")
    /\ amtx = NoThread
    /\ amtx' = t
    /\ promiseSet' = [promiseSet EXCEPT ![t] = FALSE]
    /\ UNCHANGED <<lifeVars, loopVars, resErr, sid, regVars>>
    /\ UNCHANGED outsideApi

\* Lines 373-393: return unless IsUp(); streams.at(stream_id) throws for an
\* unknown id (0 here) and the function returns; else CallSafe.
lokinet_close_stream_CallSafe(t) ==
    /\ \/ /\ ~IsUp
          /\ Step(t, "close_check", "idle")
          /\ amtx' = NoThread
          /\ UNCHANGED loopQ
       \/ /\ IsUp
          /\ Step(t, "close_check", "idle")
          /\ amtx' = NoThread
          /\ UNCHANGED loopQ
       \/ /\ IsUp
          /\ \E id \in StreamIds :
               loopQ' = Append(loopQ, Closure("close", t, id))
          /\ Step(t, "close_check", "close_wait")
          /\ UNCHANGED amtx
    /\ UNCHANGED <<lifeVars, lrun, resultVars, regVars>>
    /\ UNCHANGED outsideApi

\* Line 394: promise.get_future().get() returns; the lock is released on
\* return.
lokinet_close_stream_Get(t) ==
    /\ Step(t, "close_wait", "idle")
    /\ promiseSet[t]
    /\ amtx' = NoThread
    /\ UNCHANGED <<lifeVars, loopVars, resultVars, regVars>>
    /\ UNCHANGED outsideApi

----------------------------------------------------------------------------
(* Embedding API: the closures on the logic thread *)

\* The call that made closure c has not returned: its promise and its
\* result struct are still there.
Live(c) == curCall[c.caller] = c.call /\ apc[c.caller] # "idle"

\* What a write through a dangling reference can do.
DanglingOutcomes == {"lands", "lost", "crash"}

\* The event loop takes the next closure; a closed loop takes none.
Call_Begin ==
    /\ ~terminated
    /\ implState \in {"up", "stopping"}
    /\ lrun.kind = "idle"
    /\ loopQ # <<>>
    /\ lrun' = [kind |-> Head(loopQ).kind, caller |-> Head(loopQ).caller,
                call |-> Head(loopQ).call, step |-> "begin", err |-> "unset",
                id |-> Head(loopQ).id]
    /\ loopQ' = Tail(loopQ)
    /\ UNCHANGED <<amtx, lifeVars, apc, resultVars, regVars, calls, curCall>>
    /\ UNCHANGED outsideApi

\* Outbound closure, lines 249-266: no endpoint or no tunnel (ENOTSUP), an
\* exception from quic->open (ECANCELED), or a new stream id.
Call_Open ==
    /\ ~terminated
    /\ lrun.kind = "outbound" /\ lrun.step = "begin"
    /\ \/ /\ \E e \in {"ENOTSUP", "ECANCELED"} :
               lrun' = [lrun EXCEPT !.step = "result", !.err = e]
          /\ UNCHANGED nextStream
       \/ /\ lrun' = [lrun EXCEPT !.step = "register", !.id = nextStream]
          /\ nextStream' = nextStream + 1
    /\ UNCHANGED <<amtx, lifeVars, loopQ, apc, resultVars, streams, calls, curCall>>
    /\ UNCHANGED outsideApi

\* Line 268: ctx->outbound_stream(id), on the logic thread.
Call_Register ==
    /\ ~terminated
    /\ lrun.kind = "outbound" /\ lrun.step = "register"
    /\ streams' = PutStream(streams, lrun.id, FALSE)
    /\ lrun' = [lrun EXCEPT !.step = "result", !.err = "OK"]
    /\ UNCHANGED <<amtx, lifeVars, loopQ, apc, resultVars, nextStream, calls,
                   curCall>>
    /\ UNCHANGED outsideApi

\* Lines 252, 259, 269-278: stream_error / stream_okay write *result.
Call_Result ==
    /\ ~terminated
    /\ lrun.kind = "outbound" /\ lrun.step = "result"
    /\ lrun' = [lrun EXCEPT !.step = "set_value"]
    /\ LET t == lrun.caller
           written == /\ resErr' = [resErr EXCEPT ![t] = lrun.err]
                      /\ sid' = [sid EXCEPT ![t] =
                                   IF lrun.err = "OK" THEN lrun.id ELSE @]
       IN IF Live(lrun)
          THEN written /\ UNCHANGED terminated
          ELSE \E o \in DanglingOutcomes :
                 /\ terminated' = (o = "crash")
                 /\ IF o = "lands" THEN written ELSE UNCHANGED <<resErr, sid>>
    /\ UNCHANGED <<amtx, implState, runner, rRunning, rJoinable, loopQ, apc,
                   promiseSet, regVars, calls, curCall>>
    /\ UNCHANGED outsideApi

\* Inbound closure, lines 339-354: quic->listen returns the stream id.
Call_Listen ==
    /\ ~terminated
    /\ lrun.kind = "inbound" /\ lrun.step = "begin"
    /\ lrun' = [lrun EXCEPT !.step = "set_value", !.id = nextStream]
    /\ nextStream' = nextStream + 1
    /\ UNCHANGED <<amtx, lifeVars, loopQ, apc, resultVars, streams, calls, curCall>>
    /\ UNCHANGED outsideApi

\* Close closure, lines 381-391: quic->forget or quic->close.
Call_Close ==
    /\ ~terminated
    /\ lrun.kind = "close" /\ lrun.step = "begin"
    /\ lrun' = [lrun EXCEPT !.step = "set_value"]
    /\ UNCHANGED <<amtx, lifeVars, loopQ, apc, resultVars, regVars, calls, curCall>>
    /\ UNCHANGED outsideApi

\* Lines 253, 260, 280, 355, 392: promise.set_value; the closure ends.
Call_SetValue ==
    /\ ~terminated
    /\ lrun.step = "set_value"
    /\ lrun' = NoClosure
    /\ LET t == lrun.caller
           fulfilled ==
               /\ promiseSet' = [promiseSet EXCEPT ![t] = TRUE]
               /\ sid' = [sid EXCEPT ![t] =
                            IF lrun.kind = "inbound" THEN lrun.id ELSE @]
       IN IF Live(lrun)
          THEN fulfilled /\ UNCHANGED terminated
          ELSE \E o \in DanglingOutcomes :
                 /\ terminated' = (o = "crash")
                 /\ IF o = "lands" THEN fulfilled ELSE UNCHANGED <<promiseSet, sid>>
    /\ UNCHANGED <<amtx, implState, runner, rRunning, rJoinable, loopQ, apc,
                   resErr, regVars, calls, curCall>>
    /\ UNCHANGED outsideApi

\* A context on which no API call has been made: no build, no transit hop.
InitApiOnly ==
    /\ hops = <<>>
    /\ status = "Building"
    /\ started = FALSE
    /\ idx = 0
    /\ frames = <<>>
    /\ rng = 1
    /\ workerQ = <<>>
    /\ logicQ = <<>>
    /\ wpc = [w \in Workers |-> "idle"]
    /\ whop = [w \in Workers |-> 0]
    /\ lpc = "idle"
    /\ resultLog = <<>>
    /\ errorLog = NoError
    /\ aborted = FALSE
    /\ InitTransit
    /\ oob = FALSE
    /\ InitCompareIdle
    /\ InitApi

ApiThreadStep(t) ==
    \/ lokinet_context_start_Spawn(t)
    \/ lokinet_context_start_Wait(t)
    \/ lokinet_context_stop_Close(t)
    \/ lokinet_context_stop_Waited(t)
    \/ lokinet_context_stop_Join(t)
    \/ lokinet_outbound_stream_CallSafe(t)
    \/ lokinet_outbound_stream_Ready(t)
    \/ lokinet_outbound_stream_Elapsed(t)
    \/ lokinet_outbound_stream_Timeout(t)
    \/ lokinet_outbound_stream_Return(t)
    \/ lokinet_inbound_stream_filter_CallSafe(t)
    \/ lokinet_inbound_stream_filter_Get(t)
    \/ lokinet_inbound_stream_filter_Reacquire(t)
    \/ lokinet_inbound_stream_filter_Register(t)
    \/ lokinet_close_stream_CallSafe(t)
    \/ lokinet_close_stream_Get(t)

RunnerStep == \E r \in 1 .. MaxCalls : Runner_Setup(r) \/ Runner_Exit(r)

ClosureStep ==
    \/ Call_Begin
    \/ Call_Open
    \/ Call_Register
    \/ Call_Result
    \/ Call_Listen
    \/ Call_Close
    \/ Call_SetValue

NextApi ==
    \/ \E t \in Callers : lokinet_context_start_Acquire(t)
    \/ \E t \in Callers : lokinet_context_start_Spawn(t)
    \/ \E t \in Callers : lokinet_context_start_Wait(t)
    \/ \E t \in Callers : lokinet_context_stop_Acquire(t)
    \/ \E t \in Callers : lokinet_context_stop_Close(t)
    \/ \E t \in Callers : lokinet_context_stop_Waited(t)
    \/ \E t \in Callers : lokinet_context_stop_Join(t)
    \/ \E t \in Callers : lokinet_outbound_stream_Acquire(t)
    \/ \E t \in Callers : lokinet_outbound_stream_CallSafe(t)
    \/ \E t \in Callers : lokinet_outbound_stream_Ready(t)
    \/ \E t \in Callers : lokinet_outbound_stream_Elapsed(t)
    \/ \E t \in Callers : lokinet_outbound_stream_Timeout(t)
    \/ \E t \in Callers : lokinet_outbound_stream_Return(t)
    \/ \E t \in Callers : lokinet_inbound_stream_filter_Acquire(t)
    \/ \E t \in Callers : lokinet_inbound_stream_filter_CallSafe(t)
    \/ \E t \in Callers : lokinet_inbound_stream_filter_Get(t)
    \/ \E t \in Callers : lokinet_inbound_stream_filter_Reacquire(t)
    \/ \E t \in Callers : lokinet_inbound_stream_filter_Register(t)
    \/ \E t \in Callers : lokinet_close_stream_Acquire(t)
    \/ \E t \in Callers : lokinet_close_stream_CallSafe(t)
    \/ \E t \in Callers : lokinet_close_stream_Get(t)
    \/ \E r \in 1 .. MaxCalls : Runner_Setup(r)
    \/ \E r \in 1 .. MaxCalls : Runner_Exit(r)
    \/ Loop_Close
    \/ Call_Begin
    \/ Call_Open
    \/ Call_Register
    \/ Call_Result
    \/ Call_Listen
    \/ Call_Close
    \/ Call_SetValue

ApiSpec == InitApiOnly /\ [][NextApi]_vars

\* Every thread that can take a step of its own eventually takes one: the
\* API threads inside a call, the runner thread and the event loop.
FairApiSpec ==
    /\ InitApiOnly
    /\ [][NextApi]_vars
    /\ \A t \in Callers : WF_vars(ApiThreadStep(t))
    /\ WF_vars(RunnerStep)
    /\ WF_vars(ClosureStep)

----------------------------------------------------------------------------
(* Properties of the path build *)

NumHops == Len(hops)

\* Tasks that reference the build context: queued on either executor, or
\* running on a worker or on the logic thread.
InFlight ==
    Len(workerQ) + Len(logicQ)
    + Cardinality({ w \in Workers : wpc[w] # "idle" })
    + (IF lpc # "idle" THEN 1 ELSE 0)

\* Hops whose key generation has happened.
Processed == { i \in 1 .. NumHops : hops[i].commkey # Unset }

\* HandleDone has been queued, is running or has run.
Completed == logicQ # <<>> \/ lpc = "HandleDone" \/ resultLog # <<>>

DistinctRouters ==
    \A i, j \in 1 .. NumHops : i # j => hops[i].router.pubkey # hops[j].router.pubkey

\* C1, state part: the processed hops are a prefix 0 .. k-1 of the path, k
\* being idx (plus the hop a running worker has keyed but not yet counted),
\* and at most one task of the build is queued or running.
C1_OneTaskPrefix ==
    /\ InFlight <= 1
    /\ Processed =
         1 .. (idx + (IF \E w \in Workers : wpc[w] # "idle" /\ whop[w] = idx
                      THEN 1 ELSE 0))
    /\ \A w \in Workers :
         /\ wpc[w] = "record" => whop[w] = idx
         /\ wpc[w] = "queue" => whop[w] + 1 = idx

\* C1, step part: no hop is keyed twice, and a hop task is queued only by
\* AsyncGenerateKeys (hop 0) or by the task of hop i finishing, for hop i+1.
C1_StepOrder ==
    /\ \A i \in 1 .. NumHops :
         hops[i].commkey # Unset => hops'[i].commkey = hops[i].commkey
    /\ Len(workerQ') > Len(workerQ) =>
         \/ ~started /\ started' /\ idx = 0
         \/ \E w \in Workers :
              /\ wpc[w] = "queue" /\ wpc'[w] = "idle"
              /\ idx = whop[w] + 1 /\ idx < NumHops

\* C1: within one build the hops are processed in the order 0, 1, ..., N-1,
\* the task for hop i+1 is queued only by the completion of the task for hop
\* i, and at most one task referencing the build context is queued or running.
C1_SequentialHops == [](C1_OneTaskPrefix) /\ [][C1_StepOrder]_vars

\* A worker is processing the third hop after the first two were processed.
C1_Witness ==
    \E w \in Workers : wpc[w] = "record" /\ whop[w] = 2 /\ Processed = 1 .. 3

\* C2: the completion handler runs exactly once, on the logic thread, after
\* all N hops were processed, and in every fair run it eventually runs.
C2_CompletionOnce ==
    /\ [](/\ Len(resultLog) <= 1
          /\ \A k \in 1 .. Len(resultLog) :
               resultLog[k].thread = "logic" /\ resultLog[k].idx = NumHops)
    /\ (started ~> (Len(resultLog) = 1))

\* The safety half of C2 alone: at most once, on the logic thread, with
\* idx == N.
C2_CompletionSafety ==
    /\ Len(resultLog) <= 1
    /\ \A k \in 1 .. Len(resultLog) :
         resultLog[k].thread = "logic" /\ resultLog[k].idx = NumHops

\* C3: at completion frame i is encrypted to hops[i].router.enckey and its
\* commit record carries hop i's nextHop, pathID, commkey and nonce.
C3_FrameCarriesHop ==
    resultLog # <<>> =>
        \A i \in 1 .. NumHops :
            /\ frames[i].kind = "encrypted"
            /\ frames[i].enckey = hops[i].router.enckey
            /\ frames[i].record.nextHop =
                 (IF i < NumHops THEN hops[i + 1].router.pubkey
                                 ELSE hops[i].router.pubkey)
            /\ frames[i].record.pathID = hops[i].pathID
            /\ frames[i].record.commkey = hops[i].commkey
            /\ frames[i].record.nonce = hops[i].nonce

\* C4: after a build completes every hop but the last names the next hop as
\* upstream, the last names itself, and with distinct routers the last hop
\* is the only one that names itself.
C4_UpstreamChain ==
    Completed =>
        /\ \A i \in 1 .. (NumHops - 1) :
             hops[i].upstream = hops[i + 1].router.pubkey
        /\ hops[NumHops].upstream = hops[NumHops].router.pubkey
        /\ DistinctRouters =>
             { i \in 1 .. NumHops : hops[i].upstream = hops[i].router.pubkey }
               = {NumHops}

\* A completed build of two or more distinct routers.
C4_Witness == resultLog # <<>> /\ NumHops >= 2 /\ DistinctRouters

\* C5 as stated: hops[0].upstream is the first hop, hops[0].router.pubkey.
C5_SendToFirstHop ==
    Completed => hops[1].upstream = hops[1].router.pubkey

\* C5 as amended: hops[0].upstream is the second hop's pubkey when the path
\* has two hops or more, and the first hop's own pubkey only when N = 1.
C5_SendToNextOfFirst ==
    Completed =>
        hops[1].upstream =
            (IF NumHops >= 2 THEN hops[2].router.pubkey
                             ELSE hops[1].router.pubkey)

\* A completed build whose first hop names another router as upstream.
C5_Witness ==
    /\ resultLog # <<>>
    /\ NumHops >= 2
    /\ hops[1].upstream = hops[2].router.pubkey
    /\ hops[1].upstream # hops[1].router.pubkey

\* C6: from AsyncGenerateKeys on the commit message holds exactly MAXHOPS
\* frames; a frame at a position no hop task has reached still holds its
\* initial random bytes (so all do before hop 0, and positions N..MAXHOPS-1
\* do at completion); a frame that was encrypted was written by the task of
\* the hop at the same position.
C6_PaddingFrames ==
    started =>
        /\ Len(frames) = MAXHOPS
        /\ \A j \in 1 .. MAXHOPS :
             /\ j > idx => frames[j] = NewFrames(1)[j]
             /\ (j <= NumHops /\ frames[j].kind = "encrypted") =>
                   /\ frames[j].commkey = hops[j].commkey
                   /\ frames[j].enckey = hops[j].router.enckey

\* The handler has run for a path shorter than MAXHOPS: the first N frames
\* are encrypted, the rest are padding.
C6_Witness ==
    /\ resultLog # <<>>
    /\ NumHops >= 2 /\ NumHops < MAXHOPS
    /\ \A j \in 1 .. NumHops : frames[j].kind = "encrypted"
    /\ \A j \in (NumHops + 1) .. MAXHOPS : frames[j].kind = "random"

\* C7: once the path has left Building, a worker task that starts is a
\* no-op: it changes no hop, no frame and no index, queues nothing and
\* leaves the worker idle.
C7_TimedOutTaskIsNoOp ==
    [][(status # "Building" /\ Len(workerQ') < Len(workerQ)) =>
          /\ hops' = hops
          /\ frames' = frames
          /\ idx' = idx
          /\ logicQ' = logicQ
          /\ \A w \in Workers : wpc'[w] = "idle"]_vars

\* C8: after a failed crypto or encoding step the process keeps running, no
\* further hop task is queued, and the caller's handler is told once.
C8_FailureReported ==
    /\ [](errorLog # NoError => (~aborted /\ workerQ = <<>>))
    /\ ((errorLog # NoError) ~> (Len(resultLog) = 1))

----------------------------------------------------------------------------
(* Properties of the transit hop table *)

Stored == BagToSet(transit)

\* C9: a TransitHop created without an explicit lifetime has the default
\* lifetime DEFAULT_PATH_LIFETIME_MS (10 minutes, 600000 ms).
C9_DefaultLifetime ==
    \A e \in Stored : e.lifetime = DEFAULT_PATH_LIFETIME_MS

\* C10, state part: no two stored entries have the same triple.
C10_NoDuplicateTriple ==
    /\ \A e \in Stored : CopiesIn(e, transit) = 1
    /\ \A e1, e2 \in Stored : e1.info = e2.info => e1 = e2

\* C10, step part: a put of a stored triple changes nothing, a put of a new
\* triple (whatever its pathID) adds exactly that hop.
C10_PutEffect ==
    \A t \in Threads :
        (tpc[t] = "locked" /\ tpc'[t] = "idle") =>
            IF \E e \in Stored : e.info = targ[t].info
            THEN transit' = transit
            ELSE transit' = transit (+) SetToBag({targ[t]})

StatusTransitions ==
    { <<"Building", "Established">>, <<"Building", "Timeout">>,
      <<"Established", "Expired">> }

KeyFields(hop) == <<hop.commkey, hop.nonce, hop.shared, hop.pathID>>

\* C13: in a completed build every hop's shared secret is dh_client of the
\* router's enckey and of the commkey and nonce the hop holds; commkey, nonce
\* and pathID differ from hop to hop; and once a hop has its key material no
\* later step changes it.
C13_SharedFromHeldKeys ==
    /\ [](Completed =>
            /\ \A i \in 1 .. NumHops :
                  /\ hops[i].commkey # Unset
                  /\ hops[i].nonce # Unset
                  /\ hops[i].shared = dh_client(hops[i].router.enckey,
                                                hops[i].commkey, hops[i].nonce)
            /\ \A i, j \in 1 .. NumHops :
                  i # j => /\ hops[i].commkey # hops[j].commkey
                           /\ hops[i].nonce # hops[j].nonce
                           /\ hops[i].pathID # hops[j].pathID)
    /\ [][\A i \in 1 .. NumHops :
            hops[i].commkey # Unset => KeyFields(hops'[i]) = KeyFields(hops[i])]_vars

\* A build of three hops over two routers has completed.
C13_Witness ==
    /\ resultLog # <<>>
    /\ NumHops = 3
    /\ hops[3].router.pubkey # hops[2].router.pubkey

----------------------------------------------------------------------------
(* Properties of the embedding API *)

\* The logic thread as a holder of m_access; no code it runs acquires it.
LogicThread == NumCallers + 1

\* C11: when the ten seconds have elapsed without a value in the promise,
\* lokinet_outbound_stream returns with result->error == ETIMEDOUT.
C11_TimeoutReported ==
    \A t \in Callers : apc[t] = "out_return" => resErr[t] = "ETIMEDOUT"

\* C15: the outbound closure writes *result only while the calling thread
\* waits on the future, and touches the promise only while the call has not
\* returned.
C15_NoUseAfterReturn ==
    [][(lrun.kind = "outbound" /\ lrun.step \in {"result", "set_value"}
            /\ lrun'.step # lrun.step) =>
          /\ Live(lrun)
          /\ lrun.step = "result" => apc[lrun.caller] = "out_wait"]_vars

\* C16: a thread about to read or write lokinet_context::streams holds
\* m_access.
C16_RegistryUnderMutex ==
    /\ \A t \in Callers : apc[t] \in {"in_register", "close_check"} => amtx = t
    /\ lrun.step = "register" => amtx = LogicThread

\* C17: a lokinet_inbound_stream_filter call that waits for its closure
\* returns, unless the process was terminated.
C17_InboundReturns ==
    \A t \in Callers : (apc[t] = "in_wait") ~> (apc[t] = "idle" \/ terminated)

\* C18: at most one runner thread is unjoined at any time, an empty runner
\* pointer means no unjoined thread, and no runner is destroyed unjoined.
C18_SingleRunner ==
    /\ Cardinality(rJoinable) <= 1
    /\ runner = NoThread => rJoinable = {}
    /\ \A t \in Callers : apc[t] = "start_wait" => ~terminated

====
